---------------------------- MODULE Spec2Model ----------------------------
(***************************************************************************)
(* Update-based Conway's Game of Life (src/script.js).                     *)
(*                                                                         *)
(* The page keeps a toroidal grid of cells and a queue of cells to be      *)
(* re-evaluated.  A tick re-evaluates the queued cells and queues the      *)
(* neighbours of every cell it changed; a mouse click toggles one cell and *)
(* queues it.  A tick comes from the tick button or, while the play button *)
(* is playing, from an interval timer.  JavaScript runs each handler to    *)
(* completion, so a handler is one atomic action.                          *)
(*                                                                         *)
(* JavaScript values are modelled by what the code does with them: a cell  *)
(* holds the number 0 or 1 (makeGrid, the rule tables) or the boolean      *)
(* false or true (toggleCell), written "0", "1", "false", "true".  Arrays  *)
(* are functions over 0..n-1 where the code indexes them, and sequences    *)
(* where it only pushes and iterates.  The rows of the grid are objects    *)
(* held by reference: `rows` is the heap of row arrays and `grid` the      *)
(* outer array of references to them.                                      *)
(***************************************************************************)
EXTENDS Integers, Sequences, FiniteSets, TLC

VARIABLES
    dimensions, \* {width, height}, fixed at load
    rows,       \* heap: row reference -> row array (y -> cell value)
    grid,       \* outer array: x -> row reference
    queue,      \* cells waiting for re-evaluation, records [x, y]
    dps,        \* chart data points, records [x, y]
    xVal,       \* next chart abscissa
    yVal,       \* last charted queue length
    clicks,     \* number of mousedown events handled so far
    prev,       \* rows and queue as they were when the last handler began
    last,       \* the handler that ran last
    call,       \* last direct call of a helper function: name, arguments, result
    interval,   \* the script's `interval`: "null" or the handle setInterval returned
    timers,     \* the browser's active interval timers (handles) that call tick
    timerSeq,   \* the last handle the browser has issued
    playing,    \* whether button#play has the class "playing"
    tickDisabled,  \* buttonTick.disabled
    buttonContent  \* button#play: its innerHTML and its dataset.content

\* The play button and its timer.
player == <<interval, timers, timerSeq, playing, tickDisabled, buttonContent>>

vars == <<dimensions, rows, grid, queue, dps, xVal, yVal, clicks, prev, last, call,
          interval, timers, timerSeq, playing, tickDisabled, buttonContent>>

(***************************************************************************)
(* Bounds of the model.                                                    *)
(***************************************************************************)
Width == 4        \* dimensions.width of the page model (50 in the page)
Height == 3       \* dimensions.height of the page model (50 in the page)
MaxClicks == 2    \* mousedown events per behaviour
MaxTicks == 2     \* ticks per behaviour
MaxDim == 3       \* largest width and height tried on the helper functions
MaxCoord == 4     \* helper arguments range over -MaxCoord..MaxCoord
MaxK == 1         \* multiples of the grid size added to an argument
MaxLen == 3       \* longest sequence handed to cleanQueue
MaxQueueLen == 2  \* longest queue handed to a step as an input
MaxTimers == 2    \* setInterval calls per behaviour

dataLength == 20

(***************************************************************************)
(* JavaScript values and operators.                                        *)
(***************************************************************************)
JSVal == {"0", "1", "false", "true"}

\* ToNumber: false -> 0, true -> 1.
ToNumber(v) == IF v \in {"1", "true"} THEN 1 ELSE 0

\* ToBoolean: 0 and false are falsy.
Truthy(v) == v \in {"1", "true"}

\* !v always yields a boolean.
Not(v) == IF Truthy(v) THEN "false" ELSE "true"

\* a != b on numbers and booleans compares ToNumber of both.
LooseNeq(a, b) == ToNumber(a) # ToNumber(b)

\* a % b of JavaScript: the remainder has the sign of the dividend.
JSRem(a, b) == IF a >= 0 THEN a % b ELSE -((-a) % b)

Range(s) == {s[i] : i \in 1..Len(s)}

\* Mutant: the table for a live cell keeps it alive with no live neighbour.
rulesLonelySurvives ==
    LET dead  == <<"0", "0", "0", "1", "0", "0", "0", "0", "0">>
        alive == <<"1", "0", "1", "1", "0", "0", "0", "0", "0">>
    IN  [s \in 0..1 |-> [n \in 0..8 |-> IF s = 0 THEN dead[n + 1] ELSE alive[n + 1]]]

rules ==
    LET dead  == <<"0", "0", "0", "1", "0", "0", "0", "0", "0">>
        alive == <<"0", "0", "1", "1", "0", "0", "0", "0", "0">>
    IN  [s \in 0..1 |-> [n \in 0..8 |-> IF s = 0 THEN dead[n + 1] ELSE alive[n + 1]]]

(***************************************************************************)
(* Grid helpers.                                                           *)
(***************************************************************************)
Cells(dim) == {[x |-> x, y |-> y] : x \in 0..(dim.width - 1), y \in 0..(dim.height - 1)}

\* Mutant: the inner loop runs while y <= height, one cell too many per row.
makeRowsOffByOne(width, height) == [r \in 0..(width - 1) |-> [y \in 0..height |-> "0"]]

\* makeGrid: one fresh row object per column, every cell the number 0.
makeRows(width, height) == [r \in 0..(width - 1) |-> [y \in 0..(height - 1) |-> "0"]]

makeGrid(width, height) == [x \in 0..(width - 1) |-> x]

\* Mutant: a single %, which leaves a negative coordinate negative.
getCellObjSingleRem(x, y) ==
    [x |-> JSRem(x, dimensions.width), y |-> JSRem(y, dimensions.height)]

getCellObj(x, y) ==
    [x |-> JSRem(JSRem(x, dimensions.width) + dimensions.width, dimensions.width),
     y |-> JSRem(JSRem(y, dimensions.height) + dimensions.height, dimensions.height)]

\* getCell reads the global grid; rs and g are the heap and the grid it sees.
getCell(rs, g, x, y) ==
    rs[g[JSRem(JSRem(x, dimensions.width) + dimensions.width, dimensions.width)]]
      [JSRem(JSRem(y, dimensions.height) + dimensions.height, dimensions.height)]

\* Mutant: thisGrid[y][x] = state, the indices exchanged.
setCellInGridTransposed(rs, thisGrid, x, y, state) == [rs EXCEPT ![thisGrid[y]][x] = state]

\* thisGrid[x][y] = state: a write to the row object thisGrid[x] refers to.
setCellInGrid(rs, thisGrid, x, y, state) == [rs EXCEPT ![thisGrid[x]][y] = state]

\* Mutant: grid[x][y] = true, the click switches the cell on instead of negating it.
toggleCellSetsAlive(rs, g, x, y) == [rs EXCEPT ![g[x]][y] = "true"]

\* grid[x][y] = !grid[x][y]
toggleCell(rs, g, x, y) == [rs EXCEPT ![g[x]][y] = Not(rs[g[x]][y])]

addCellToQueue(q, x, y) == Append(q, [x |-> x, y |-> y])

\* Mutant: the last neighbour repeats (x+1, y+1) instead of (x+1, y-1).
getNeighborCellsRepeated(x, y) ==
    <<getCellObj(x + 1, y),
      getCellObj(x + 1, y + 1),
      getCellObj(x, y + 1),
      getCellObj(x - 1, y + 1),
      getCellObj(x - 1, y),
      getCellObj(x - 1, y - 1),
      getCellObj(x, y - 1),
      getCellObj(x + 1, y + 1)>>

\* Mutant: the neighbours as plain objects, without getCellObj's wrap.
getNeighborCellsUnwrapped(x, y) ==
    <<[x |-> x + 1, y |-> y],
      [x |-> x + 1, y |-> y + 1],
      [x |-> x, y |-> y + 1],
      [x |-> x - 1, y |-> y + 1],
      [x |-> x - 1, y |-> y],
      [x |-> x - 1, y |-> y - 1],
      [x |-> x, y |-> y - 1],
      [x |-> x + 1, y |-> y - 1]>>

getNeighborCells(x, y) ==
    <<getCellObj(x + 1, y),
      getCellObj(x + 1, y + 1),
      getCellObj(x, y + 1),
      getCellObj(x - 1, y + 1),
      getCellObj(x - 1, y),
      getCellObj(x - 1, y - 1),
      getCellObj(x, y - 1),
      getCellObj(x + 1, y - 1)>>

getNeighborStates(rs, g, x, y) ==
    LET nb == getNeighborCells(x, y)
    IN  [i \in 1..Len(nb) |-> getCell(rs, g, nb[i].x, nb[i].y)]

RECURSIVE SumNumbers(_, _)
SumNumbers(states, i) ==
    IF i = 0 THEN 0 ELSE SumNumbers(states, i - 1) + ToNumber(states[i])

\* reduce((acc, curr) => acc += curr, 0)
getNeighborCount(rs, g, x, y) ==
    LET states == getNeighborStates(rs, g, x, y)
    IN  SumNumbers(states, Len(states))

(***************************************************************************)
(* cleanQueue: keep a cell unless an equal one was kept before.            *)
(***************************************************************************)
\* Mutant: unique.unshift(cell) instead of unique.push(cell).
keepIfNewAtFront(unique, cell) ==
    IF \E j \in 1..Len(unique) : unique[j].x = cell.x /\ unique[j].y = cell.y
    THEN unique
    ELSE <<cell>> \o unique

\* The body of qu.forEach for one cell.
keepIfNew(unique, cell) ==
    IF \E j \in 1..Len(unique) : unique[j].x = cell.x /\ unique[j].y = cell.y
    THEN unique
    ELSE Append(unique, cell)

\* qu.forEach over entries lo..hi in order, starting from `unique`.  The range
\* is walked by halves, and the test on the left half makes TLC finish it
\* before the right half starts, which keeps its evaluation stack shallow.
RECURSIVE cleanQueueOver(_, _, _, _)
cleanQueueOver(qu, lo, hi, unique) ==
    IF lo > hi THEN unique
    ELSE IF lo = hi THEN keepIfNew(unique, qu[lo])
    ELSE LET left == cleanQueueOver(qu, lo, (lo + hi) \div 2, unique)
         IN  IF left = unique
             THEN cleanQueueOver(qu, ((lo + hi) \div 2) + 1, hi, unique)
             ELSE cleanQueueOver(qu, ((lo + hi) \div 2) + 1, hi, left)

\* Mutant: duplicates are removed from qu in place with splice(i, 1) inside the
\* loop over i, so the entry that moves into place i is never looked at.
RECURSIVE spliceDuplicatesFrom(_, _)
spliceDuplicatesFrom(qu, i) ==
    IF i > Len(qu) THEN qu
    ELSE IF \E j \in 1..(i - 1) : qu[j].x = qu[i].x /\ qu[j].y = qu[i].y
         THEN spliceDuplicatesFrom(SubSeq(qu, 1, i - 1) \o SubSeq(qu, i + 1, Len(qu)), i + 1)
         ELSE spliceDuplicatesFrom(qu, i + 1)

cleanQueueSplicing(qu) == spliceDuplicatesFrom(qu, 1)

\* Mutant: [...new Set(nextQueue)], which compares the cell objects by identity;
\* getCellObj makes a new object on every call, so nothing is removed.
cleanQueueBySet(qu) == qu

cleanQueue(qu) == cleanQueueOver(qu, 1, Len(qu), <<>>)

(***************************************************************************)
(* updateCells.                                                            *)
(***************************************************************************)
\* Array.prototype.slice(): a new outer array holding the same references.
slice(arr) == [i \in DOMAIN arr |-> arr[i]]

\* Mutant: only a birth queues the neighbours; a death is written but not spread.
updateCellBirthOnly(st, g, nextGrid, cell) ==
    LET oldState == getCell(st.rows, g, cell.x, cell.y)
        newState == rules[IF Truthy(oldState) THEN 1 ELSE 0]
                         [getNeighborCount(st.rows, g, cell.x, cell.y)]
    IN  IF LooseNeq(newState, oldState)
        THEN [rows      |-> setCellInGrid(st.rows, nextGrid, cell.x, cell.y, newState),
              nextQueue |-> IF Truthy(newState)
                            THEN st.nextQueue \o getNeighborCells(cell.x, cell.y)
                            ELSE st.nextQueue]
        ELSE st

\* Mutant: the neighbours are pushed whether or not the state changes.
updateCellAlwaysEnqueue(st, g, nextGrid, cell) ==
    LET oldState == getCell(st.rows, g, cell.x, cell.y)
        newState == rules[IF Truthy(oldState) THEN 1 ELSE 0]
                         [getNeighborCount(st.rows, g, cell.x, cell.y)]
    IN  [rows      |-> IF LooseNeq(newState, oldState)
                       THEN setCellInGrid(st.rows, nextGrid, cell.x, cell.y, newState)
                       ELSE st.rows,
         nextQueue |-> st.nextQueue \o getNeighborCells(cell.x, cell.y)]

\* The body of queue.forEach for one cell.  st = [rows, nextQueue]; g is the
\* global grid the reads go through, nextGrid the array the writes go through.
updateCell(st, g, nextGrid, cell) ==
    LET oldState == getCell(st.rows, g, cell.x, cell.y)
        newState == rules[IF Truthy(oldState) THEN 1 ELSE 0]
                         [getNeighborCount(st.rows, g, cell.x, cell.y)]
    IN  IF LooseNeq(newState, oldState)
        THEN [rows      |-> setCellInGrid(st.rows, nextGrid, cell.x, cell.y, newState),
              nextQueue |-> st.nextQueue \o getNeighborCells(cell.x, cell.y)]
        ELSE st

\* queue.forEach over entries lo..hi in order, starting from st; walked by
\* halves in the same way as cleanQueueOver.
RECURSIVE forEachCell(_, _, _, _, _, _)
forEachCell(st, g, nextGrid, q, lo, hi) ==
    IF lo > hi THEN st
    ELSE IF lo = hi THEN updateCell(st, g, nextGrid, q[lo])
    ELSE LET left == forEachCell(st, g, nextGrid, q, lo, (lo + hi) \div 2)
         IN  IF left = st
             THEN forEachCell(st, g, nextGrid, q, ((lo + hi) \div 2) + 1, hi)
             ELSE forEachCell(left, g, nextGrid, q, ((lo + hi) \div 2) + 1, hi)

\* Mutant: nextGrid = makeGrid(width, height), a fresh all-dead grid, not a copy.
updateCellsFreshGrid(rs, g, q) ==
    LET nextGrid == makeGrid(dimensions.width, dimensions.height)
        fresh == makeRows(dimensions.width, dimensions.height)
        st == forEachCell([rows |-> fresh, nextQueue |-> <<>>], g, nextGrid, q, 1, Len(q))
    IN  [rows |-> st.rows, grid |-> nextGrid, queue |-> cleanQueue(st.nextQueue)]

\* Mutant: queue = nextQueue, the candidates as collected, without cleanQueue.
updateCellsUncleaned(rs, g, q) ==
    LET nextGrid == slice(g)
        st == forEachCell([rows |-> rs, nextQueue |-> <<>>], g, nextGrid, q, 1, Len(q))
    IN  [rows |-> st.rows, grid |-> nextGrid, queue |-> st.nextQueue]

\* The heap, grid and queue after updateCells() run on heap rs, grid g, queue q.
updateCells(rs, g, q) ==
    LET nextGrid == slice(g)
        st == forEachCell([rows |-> rs, nextQueue |-> <<>>], g, nextGrid, q, 1, Len(q))
    IN  [rows |-> st.rows, grid |-> nextGrid, queue |-> cleanQueue(st.nextQueue)]

(***************************************************************************)
(* updateChart(count): count points, then at most one shift.               *)
(***************************************************************************)
RECURSIVE pushPoints(_, _, _, _)
pushPoints(ch, q, count, j) ==
    IF j >= count THEN ch
    ELSE pushPoints([dps  |-> Append(ch.dps, [x |-> ch.xVal, y |-> Len(q)]),
                     xVal |-> ch.xVal + 1,
                     yVal |-> Len(q)], q, count, j + 1)

updateChart(ch, q, count) ==
    LET pushed == pushPoints(ch, q, IF count = 0 THEN 1 ELSE count, 0)
    IN  IF Len(pushed.dps) > dataLength
        THEN [pushed EXCEPT !.dps = Tail(pushed.dps)]
        ELSE pushed

noCall == [fn |-> "none"]

(***************************************************************************)
(* The play button.  p = [interval, timers, timerSeq, playing,             *)
(* tickDisabled, buttonContent].                                           *)
(***************************************************************************)
\* Mutant: the else branch with clearInterval(interval) is missing.
playClickNeverClears(p) ==
    LET swapped == [innerHTML |-> p.buttonContent.content,
                    content   |-> p.buttonContent.innerHTML]
        started == IF ~p.playing
                   THEN [p EXCEPT !.interval = p.timerSeq + 1,
                                  !.timers = p.timers \cup {p.timerSeq + 1},
                                  !.timerSeq = p.timerSeq + 1]
                   ELSE p
    IN  [started EXCEPT !.buttonContent = swapped,
                        !.playing = ~p.playing,
                        !.tickDisabled = ~p.tickDisabled]

\* The click handler of button#play: swap innerHTML and dataset.content, start
\* or clear the timer, toggle the class, negate buttonTick.disabled.
playClick(p) ==
    LET swapped == [innerHTML |-> p.buttonContent.content,
                    content   |-> p.buttonContent.innerHTML]
        started == IF ~p.playing
                   THEN [p EXCEPT !.interval = p.timerSeq + 1,
                                  !.timers = p.timers \cup {p.timerSeq + 1},
                                  !.timerSeq = p.timerSeq + 1]
                   ELSE [p EXCEPT !.timers = p.timers \ {p.interval}]
    IN  [started EXCEPT !.buttonContent = swapped,
                        !.playing = ~p.playing,
                        !.tickDisabled = ~p.tickDisabled]

\* The page as loaded: no timer, the play button not playing, the tick button
\* enabled.
Paused ==
    /\ interval = "null"
    /\ timers = {}
    /\ timerSeq = 0
    /\ playing = FALSE
    /\ tickDisabled = FALSE
    /\ buttonContent = [innerHTML |-> "shown", content |-> "kept"]

(***************************************************************************)
(* The page: state after the script has loaded, and its handlers.          *)
(***************************************************************************)
LoadChart == updateChart([dps |-> <<>>, xVal |-> 0, yVal |-> 100], <<>>, dataLength)

Loaded(dim) ==
    /\ dimensions = dim
    /\ rows = makeRows(dim.width, dim.height)
    /\ grid = makeGrid(dim.width, dim.height)
    /\ queue = <<>>
    /\ dps = LoadChart.dps
    /\ xVal = LoadChart.xVal
    /\ yVal = LoadChart.yVal
    /\ clicks = 0
    /\ prev = [rows |-> rows, queue |-> queue]
    /\ last = "load"
    /\ call = noCall
    /\ Paused

Init == Loaded([width |-> Width, height |-> Height])

\* canvas mousedown on cell (x, y): toggleCell, addCellToQueue (draw only paints).
\* At most `cap` clicks are taken in one behaviour.
Click(x, y, cap) ==
    /\ clicks < cap
    /\ clicks' = clicks + 1
    /\ prev' = [rows |-> rows, queue |-> queue]
    /\ rows' = toggleCell(rows, grid, x, y)
    /\ queue' = addCellToQueue(queue, x, y)
    /\ last' = "mousedown"
    /\ UNCHANGED <<dimensions, grid, dps, xVal, yVal, call>>
    /\ UNCHANGED player

\* tick(): updateCells, updateChart (draw only paints).
Tick ==
    /\ xVal < dataLength + MaxTicks
    /\ \E u \in {updateCells(rows, grid, queue)} :
       \E ch \in {updateChart([dps |-> dps, xVal |-> xVal, yVal |-> yVal], u.queue, 0)} :
           /\ rows' = u.rows
           /\ grid' = u.grid
           /\ queue' = u.queue
           /\ dps' = ch.dps
           /\ xVal' = ch.xVal
           /\ yVal' = ch.yVal
    /\ prev' = [rows |-> rows, queue |-> queue]
    /\ last' = "tick"
    /\ UNCHANGED <<dimensions, clicks, call>>
    /\ UNCHANGED player

MouseDown(x, y) == Click(x, y, MaxClicks)

Next ==
    \/ \E c \in Cells(dimensions) : MouseDown(c.x, c.y)
    \/ Tick

Spec == Init /\ [][Next]_vars

(***************************************************************************)
(* updateCells as a function of the grid and the queue it finds: every     *)
(* grid whose live cells lie in the first two columns of a 3x3 torus (the  *)
(* smallest torus on which a cell has 8 distinct neighbours), with every   *)
(* queue of at most MaxQueueLen cells, duplicates included, then ticks.    *)
(***************************************************************************)
StepDim == [width |-> 3, height |-> 3]

StepWindow == {c \in Cells(StepDim) : c.x < 2}

SeqsUpTo(S, n) == UNION {[1..k -> S] : k \in 0..n}

InitStep ==
    /\ dimensions = StepDim
    /\ \E live \in SUBSET StepWindow :
          rows = [r \in 0..(StepDim.width - 1) |->
                    [y \in 0..(StepDim.height - 1) |->
                        IF [x |-> r, y |-> y] \in live THEN "1" ELSE "0"]]
    /\ grid = makeGrid(StepDim.width, StepDim.height)
    /\ queue \in SeqsUpTo(Cells(StepDim), MaxQueueLen)
    /\ dps = LoadChart.dps
    /\ xVal = LoadChart.xVal
    /\ yVal = LoadChart.yVal
    /\ clicks = 0
    /\ prev = [rows |-> rows, queue |-> queue]
    /\ last = "load"
    /\ call = noCall
    /\ Paused

NextStep == Tick

SpecStep == InitStep /\ [][NextStep]_vars

(***************************************************************************)
(* The page with one more click per behaviour than Spec allows: three      *)
(* clicks put three live cells in a row.                                   *)
(***************************************************************************)
NextLong ==
    \/ \E c \in Cells(dimensions) : Click(c.x, c.y, MaxClicks + 1)
    \/ Tick

SpecLong == Init /\ [][NextLong]_vars

(***************************************************************************)
(* The blinker scenario: a 5x5 torus whose live cells are (1,2), (2,2) and *)
(* (3,2), set by toggleCell or by a rule, and a queue holding those cells  *)
(* and all their neighbours once each: the 15 cells of rows 1..3, taken    *)
(* row by row or column by column, forwards or backwards, from any         *)
(* starting point.  Then ticks.                                            *)
(***************************************************************************)
BlinkerDim == [width |-> 5, height |-> 5]

BlinkerLive == {[x |-> 1, y |-> 2], [x |-> 2, y |-> 2], [x |-> 3, y |-> 2]}

BlinkerTurned == {[x |-> 2, y |-> 1], [x |-> 2, y |-> 2], [x |-> 2, y |-> 3]}

BlinkerQueued == {c \in Cells(BlinkerDim) : c.y \in 1..3}

RowByRow == [i \in 1..15 |-> [x |-> (i - 1) % 5, y |-> 1 + ((i - 1) \div 5)]]

ColumnByColumn == [i \in 1..15 |-> [x |-> (i - 1) \div 3, y |-> 1 + ((i - 1) % 3)]]

Reverse(s) == [i \in 1..Len(s) |-> s[Len(s) + 1 - i]]

Rotate(s, k) == [i \in 1..Len(s) |-> s[1 + ((i - 1 + k) % Len(s))]]

BlinkerQueues ==
    {Rotate(s, k) : s \in {RowByRow, ColumnByColumn, Reverse(RowByRow), Reverse(ColumnByColumn)},
                    k \in 0..14}

InitBlinker ==
    /\ dimensions = BlinkerDim
    /\ \E v \in {"1", "true"} :
          rows = [r \in 0..(BlinkerDim.width - 1) |->
                    [y \in 0..(BlinkerDim.height - 1) |->
                        IF [x |-> r, y |-> y] \in BlinkerLive THEN v ELSE "0"]]
    /\ grid = makeGrid(BlinkerDim.width, BlinkerDim.height)
    /\ queue \in BlinkerQueues
    /\ dps = LoadChart.dps
    /\ xVal = LoadChart.xVal
    /\ yVal = LoadChart.yVal
    /\ clicks = 0
    /\ prev = [rows |-> rows, queue |-> queue]
    /\ last = "load"
    /\ call = noCall
    /\ Paused

NextBlinker == Tick

SpecBlinker == InitBlinker /\ [][NextBlinker]_vars

(***************************************************************************)
(* The grid helpers called directly: on every grid of at most MaxDim by    *)
(* MaxDim cells with at most one live cell, with arguments on both sides   *)
(* of the grid's range.                                                    *)
(***************************************************************************)
InitHelpers ==
    /\ \E w, h \in 1..MaxDim : dimensions = [width |-> w, height |-> h]
    /\ \E live \in {{}} \cup {{c} : c \in Cells(dimensions)} :
          rows = [r \in 0..(dimensions.width - 1) |->
                    [y \in 0..(dimensions.height - 1) |->
                        IF [x |-> r, y |-> y] \in live THEN "true" ELSE "0"]]
    /\ grid = makeGrid(dimensions.width, dimensions.height)
    /\ queue = <<>>
    /\ dps = LoadChart.dps
    /\ xVal = LoadChart.xVal
    /\ yVal = LoadChart.yVal
    /\ clicks = 0
    /\ prev = [rows |-> rows, queue |-> queue]
    /\ last = "load"
    /\ call = noCall
    /\ Paused

\* One direct call per behaviour, on the state as Init left it.
Returns(c) ==
    /\ call = noCall
    /\ call' = c
    /\ UNCHANGED <<dimensions, rows, grid, queue, dps, xVal, yVal, clicks, prev, last>>
    /\ UNCHANGED player

CallGetCellObj(x, y) ==
    Returns([fn |-> "getCellObj", x |-> x, y |-> y, ret |-> getCellObj(x, y)])

\* getCell(x, y) and getCell(x + k*width, y + k*height) on the same grid.
CallGetCell(x, y, k) ==
    Returns([fn |-> "getCell", x |-> x, y |-> y, k |-> k,
             ret |-> getCell(rows, grid, x, y),
             shifted |-> getCell(rows, grid, x + k * dimensions.width,
                                 y + k * dimensions.height)])

CallGetNeighborCells(x, y) ==
    Returns([fn |-> "getNeighborCells", x |-> x, y |-> y, ret |-> getNeighborCells(x, y)])

NextHelpers ==
    \/ \E x, y \in (-MaxCoord)..MaxCoord : CallGetCellObj(x, y)
    \/ \E x, y \in (-MaxCoord)..MaxCoord : \E k \in (-MaxK)..MaxK : CallGetCell(x, y, k)
    \/ \E c \in Cells(dimensions) : CallGetNeighborCells(c.x, c.y)

SpecHelpers == InitHelpers /\ [][NextHelpers]_vars

(***************************************************************************)
(* cleanQueue called directly on every sequence of at most MaxLen          *)
(* coordinates out of six.                                                 *)
(***************************************************************************)
QueueCoords == {[x |-> x, y |-> y] : x \in 0..1, y \in 0..2}

CallCleanQueue(xs) == Returns([fn |-> "cleanQueue", xs |-> xs, ret |-> cleanQueue(xs)])

NextClean == \E xs \in SeqsUpTo(QueueCoords, MaxLen) : CallCleanQueue(xs)

SpecClean == Init /\ [][NextClean]_vars

(***************************************************************************)
(* The page with its play button: clicks on button#play, clicks on         *)
(* button#tick while it is enabled, the timer's calls of tick while a      *)
(* timer is active, and mousedowns (one fewer than in Spec: they only give *)
(* the ticks something to do).  A disabled button gets no click event.     *)
(***************************************************************************)
PlayClick ==
    /\ playing \/ timerSeq < MaxTimers
    /\ \E p \in {playClick([interval |-> interval, timers |-> timers,
                             timerSeq |-> timerSeq, playing |-> playing,
                             tickDisabled |-> tickDisabled,
                             buttonContent |-> buttonContent])} :
          /\ interval' = p.interval
          /\ timers' = p.timers
          /\ timerSeq' = p.timerSeq
          /\ playing' = p.playing
          /\ tickDisabled' = p.tickDisabled
          /\ buttonContent' = p.buttonContent
    /\ last' = "play"
    /\ UNCHANGED <<dimensions, rows, grid, queue, dps, xVal, yVal, clicks, prev, call>>

ButtonTick == ~tickDisabled /\ Tick

TimerTick == timers # {} /\ Tick

NextPlay ==
    \/ PlayClick
    \/ ButtonTick
    \/ TimerTick
    \/ \E c \in Cells(dimensions) : Click(c.x, c.y, MaxClicks - 1)

SpecPlay == Init /\ [][NextPlay]_vars

(***************************************************************************)
(* makeGrid called directly, on the loaded page, with every width and      *)
(* height of ConfigSizes, negative, zero and positive.  The function has   *)
(* no throw and no check of its arguments: the loops do not run for a      *)
(* bound that is not positive, and the array built so far is returned.     *)
(***************************************************************************)
CallMakeGrid(width, height) ==
    Returns([fn |-> "makeGrid", width |-> width, height |-> height,
             outcome |-> "returned",
             ret |-> [grid |-> makeGrid(width, height), rows |-> makeRows(width, height)]])

ConfigSizes == (-MaxCoord - MaxDim)..(MaxCoord + MaxDim)

NextConfig == \E width, height \in ConfigSizes : CallMakeGrid(width, height)

SpecConfig == Init /\ [][NextConfig]_vars

(***************************************************************************)
(* Vocabulary of the properties.                                           *)
(***************************************************************************)
\* Whether cell c is alive in heap rs seen through grid g.
CellState(rs, g, c) == Truthy(rs[g[c.x]][c.y])

LiveCells(rs, g) == {c \in Cells(dimensions) : CellState(rs, g, c)}

NoDup(q) == \A i, j \in 1..Len(q) : (q[i].x = q[j].x /\ q[i].y = q[j].y) => i = j

\* The toroidal Moore neighbourhood of c, by mathematical modulo.
Moore(c) ==
    {[x |-> (c.x + d[1]) % dimensions.width, y |-> (c.y + d[2]) % dimensions.height] :
        d \in ((-1..1) \X (-1..1)) \ {<<0, 0>>}}

\* The reference step: a queued cell gets the rule's value for its state and
\* its live-neighbour count in heap rs; any other cell keeps its state.
RefState(rs, g, q, c) ==
    IF c \in Range(q)
    THEN Truthy(rules[IF CellState(rs, g, c) THEN 1 ELSE 0]
                     [Cardinality({n \in Moore(c) : CellState(rs, g, n)})])
    ELSE CellState(rs, g, c)

Swap(q, i, j) == [q EXCEPT ![i] = q[j], ![j] = q[i]]

\* The loop of the last step as it stood before its i-th queue entry.
BeforeEntry(i) ==
    forEachCell([rows |-> prev.rows, nextQueue |-> <<>>], grid, slice(grid),
                prev.queue, 1, i - 1)

\* Whether the last step wrote the cell of its i-th queue entry.
ChangedAt(i) ==
    updateCell(BeforeEntry(i), grid, slice(grid), prev.queue[i]).rows # BeforeEntry(i).rows

\* The loop of the last step as a whole: StepTrace[i] is the loop's state
\* before its i-th queue entry, StepTrace[Len(prev.queue) + 1] its final state.
RECURSIVE traceFrom(_, _)
traceFrom(tr, i) ==
    IF i > Len(prev.queue) THEN tr
    ELSE traceFrom(Append(tr, updateCell(tr[Len(tr)], grid, slice(grid), prev.queue[i])),
                   i + 1)

StepTrace == traceFrom(<<[rows |-> prev.rows, nextQueue |-> <<>>]>>, 1)

\* In trace tr: whether the i-th queue entry was written.
ChangedIn(tr, i) == tr[i + 1].rows # tr[i].rows

\* In trace tr: the live-neighbour count taken for the i-th queue entry.
CountIn(tr, i) == getNeighborCount(tr[i].rows, grid, prev.queue[i].x, prev.queue[i].y)

\* In trace tr: whether the rule gave the i-th queue entry the state it had.
RuleKeepsIn(tr, i) ==
    Truthy(rules[IF CellState(tr[i].rows, grid, prev.queue[i]) THEN 1 ELSE 0][CountIn(tr, i)])
        = CellState(tr[i].rows, grid, prev.queue[i])

\* The candidates the last step collected, before deduplication.
Candidates == BeforeEntry(Len(prev.queue) + 1).nextQueue

\* The number of entries of q that repeat an earlier entry.
Dups(q) == Len(q) - Cardinality(Range(q))

\* The places of xs that hold a coordinate no earlier place holds.
FirstPlaces(xs) == {i \in 1..Len(xs) : \A j \in 1..(i - 1) : xs[j] # xs[i]}

\* The entries of xs at its first places, in the order of xs.
FirstOccurrences(xs) ==
    [k \in 1..Cardinality(FirstPlaces(xs)) |->
        xs[CHOOSE i \in FirstPlaces(xs) :
              Cardinality({j \in FirstPlaces(xs) : j <= i}) = k]]

(***************************************************************************)
(* C1: after a step on a duplicate-free queue every cell has the state of  *)
(* the reference step, whose neighbour counts are all taken from the grid  *)
(* as it was before the step.                                              *)
(***************************************************************************)
C1_StepReadsPreStepGrid ==
    (last = "tick" /\ NoDup(prev.queue)) =>
        \A c \in Cells(dimensions) :
            CellState(rows, grid, c) = RefState(prev.rows, grid, prev.queue, c)

(***************************************************************************)
(* C2: the grid a step produces does not depend on the order of its queue: *)
(* exchanging any two entries of the queue gives the same cell states.     *)
(***************************************************************************)
C2_QueueOrderIrrelevant ==
    last = "tick" =>
        \A i, j \in 1..Len(prev.queue) :
            LiveCells(updateCells(prev.rows, grid, Swap(prev.queue, i, j)).rows, grid)
                = LiveCells(rows, grid)

(***************************************************************************)
(* C3: one step from the blinker scenario, whatever the order of its       *)
(* queue, leaves exactly (2,1), (2,2) and (2,3) alive.                     *)
(***************************************************************************)
C3_BlinkerTurns ==
    (/\ last = "tick"
     /\ dimensions = BlinkerDim
     /\ LiveCells(prev.rows, grid) = BlinkerLive
     /\ Range(prev.queue) = BlinkerQueued
     /\ NoDup(prev.queue)) =>
        LiveCells(rows, grid) = BlinkerTurned

(***************************************************************************)
(* C4: when a step writes a queued cell, all Moore neighbours of that cell *)
(* are in the queue the step produces.                                     *)
(***************************************************************************)
C4_ChangePropagation ==
    last = "tick" =>
        \A i \in 1..Len(prev.queue) :
            ChangedAt(i) => Moore(prev.queue[i]) \subseteq Range(queue)

\* A step in which a queued dead cell was born.
C4_Witness ==
    /\ last = "tick"
    /\ \E i \in 1..Len(prev.queue) :
          /\ ChangedAt(i)
          /\ ~CellState(BeforeEntry(i).rows, grid, prev.queue[i])
          /\ Moore(prev.queue[i]) \subseteq Range(queue)

(***************************************************************************)
(* C5: the queue a step produces holds no coordinate twice.                *)
(***************************************************************************)
C5_OutputQueueNoDuplicates == last = "tick" => NoDup(queue)

\* A step whose candidate list held duplicates that were removed.
C5_Witness ==
    /\ last = "tick"
    /\ queue # <<>>
    /\ Len(Candidates) > Len(queue)

(***************************************************************************)
(* C6: while the queue is empty a step changes neither the grid nor the    *)
(* queue, so an empty queue stays empty and the grid constant until a      *)
(* click.                                                                  *)
(***************************************************************************)
C6_EmptyQueueFixedPoint ==
    [][queue = <<>> =>
          \/ rows' = rows /\ grid' = grid /\ queue' = <<>>
          \/ clicks' # clicks]_vars

\* Two steps in a row on an empty queue, with live cells on the grid.
C6_Witness ==
    /\ last = "tick"
    /\ prev.queue = <<>>
    /\ queue = <<>>
    /\ xVal >= dataLength + 2
    /\ LiveCells(rows, grid) # {}

(***************************************************************************)
(* C7: a step on a grid whose only live cell is c, with queue [c], kills c *)
(* and leaves exactly the 8 neighbours of c in the queue.                  *)
(***************************************************************************)
C7_IsolatedCellDies ==
    \A c \in Cells(dimensions) :
        (last = "tick" /\ prev.queue = <<c>> /\ LiveCells(prev.rows, grid) = {c}) =>
            /\ ~CellState(rows, grid, c)
            /\ Len(queue) = 8
            /\ Range(queue) = Moore(c)

\* Such a step has run.
C7_Witness ==
    \E c \in Cells(dimensions) :
        /\ last = "tick"
        /\ prev.queue = <<c>>
        /\ LiveCells(prev.rows, grid) = {c}
        /\ LiveCells(rows, grid) = {}

(***************************************************************************)
(* C8: getCellObj lands in 0..width-1 and 0..height-1 for arguments below, *)
(* inside and above the range, and getCell returns the same value at       *)
(* (x, y) and at (x + k*width, y + k*height).                              *)
(***************************************************************************)
C8_ToroidalWrap ==
    /\ call.fn = "getCellObj" =>
          /\ call.ret.x \in 0..(dimensions.width - 1)
          /\ call.ret.y \in 0..(dimensions.height - 1)
          /\ (call.ret.x - call.x) % dimensions.width = 0
          /\ (call.ret.y - call.y) % dimensions.height = 0
    /\ call.fn = "getCell" => call.ret = call.shifted

\* The one live cell read through a negative x and a shifted coordinate.
C8_Witness ==
    /\ call.fn = "getCell"
    /\ call.x < 0
    /\ call.y >= dimensions.height
    /\ call.k # 0
    /\ call.ret = "true"
    /\ call.shifted = "true"
    /\ dimensions.width > 1

(***************************************************************************)
(* C9: on a grid at least 3 wide and 3 high getNeighborCells returns 8     *)
(* pairwise distinct cells of the grid, none of them the cell itself: its  *)
(* wrapped Moore neighbourhood.                                            *)
(***************************************************************************)
C9_NeighbourCompleteness ==
    (call.fn = "getNeighborCells" /\ dimensions.width >= 3 /\ dimensions.height >= 3) =>
        /\ Len(call.ret) = 8
        /\ NoDup(call.ret)
        /\ Range(call.ret) \subseteq Cells(dimensions)
        /\ [x |-> call.x, y |-> call.y] \notin Range(call.ret)
        /\ Range(call.ret) = Moore([x |-> call.x, y |-> call.y])

\* The neighbours of a corner cell, which wrap on both axes.
C9_Witness ==
    /\ call.fn = "getNeighborCells"
    /\ dimensions.width >= 3
    /\ dimensions.height >= 3
    /\ call.x = 0
    /\ call.y = dimensions.height - 1
    /\ Cardinality(Range(call.ret)) = 8

(***************************************************************************)
(* C10: cleanQueue applied to its own result returns that result.          *)
(***************************************************************************)
C10_DedupIdempotent ==
    call.fn = "cleanQueue" => cleanQueue(call.ret) = call.ret

\* A call that removed a duplicate and kept more than one cell.
C10_Witness ==
    /\ call.fn = "cleanQueue"
    /\ Len(call.ret) < Len(call.xs)
    /\ Len(call.ret) > 1

(***************************************************************************)
(* C11: cleanQueue(xs) is the sequence of the first occurrences of the     *)
(* coordinates of xs, in the order they have in xs, and holds the same set *)
(* of coordinates as xs.                                                   *)
(***************************************************************************)
C11_DedupKeepsFirstOccurrences ==
    call.fn = "cleanQueue" =>
        /\ call.ret = FirstOccurrences(call.xs)
        /\ Range(call.ret) = Range(call.xs)

\* A call on <<a, b, a>>: the second a is dropped, a stays before b.
C11_Witness ==
    /\ call.fn = "cleanQueue"
    /\ Len(call.xs) = 3
    /\ call.xs[1] = call.xs[3]
    /\ call.xs[1] # call.xs[2]
    /\ call.ret = <<call.xs[1], call.xs[2]>>

(***************************************************************************)
(* C13: whenever a step starts, after any clicks and steps since the page  *)
(* loaded, the queue it consumes holds no coordinate twice.                *)
(***************************************************************************)
C13_ConsumedQueueNoDuplicates == last = "tick" => NoDup(prev.queue)

(***************************************************************************)
(* C13, amended: a step that directly follows the page load or another     *)
(* step consumes a queue that holds no coordinate twice; a click appends   *)
(* its cell without looking, which adds at most one repeated entry.        *)
(***************************************************************************)
C13_StepAfterStepConsumesDeduplicated ==
    [][/\ (last' = "tick" /\ last # "mousedown") => NoDup(queue)
       /\ last' = "mousedown" => Dups(queue') <= Dups(queue) + 1]_vars

\* A step that consumed the 8 neighbours the step before it had queued.
C13_Witness ==
    /\ last = "tick"
    /\ clicks = 1
    /\ Len(prev.queue) = 8
    /\ NoDup(prev.queue)
    /\ xVal = dataLength + 2

(***************************************************************************)
(* C14: a cell whose coordinate is not in the queue a step consumes holds  *)
(* after the step the value it held before it.                             *)
(***************************************************************************)
C14_StepFrame ==
    last = "tick" =>
        \A c \in Cells(dimensions) \ Range(prev.queue) :
            rows[grid[c.x]][c.y] = prev.rows[grid[c.x]][c.y]

\* A step that wrote a queued cell while a live cell outside the queue stayed.
C14_Witness ==
    /\ last = "tick"
    /\ rows # prev.rows
    /\ \E c \in Cells(dimensions) \ Range(prev.queue) :
          CellState(prev.rows, grid, c) /\ CellState(rows, grid, c)

(***************************************************************************)
(* C15: in every state reached by clicks and steps the grid has            *)
(* dimensions.width columns, each a row of dimensions.height cells, every  *)
(* cell holds one of the values 0, 1, false, true, and every neighbour     *)
(* count the last step indexed the rule table with lies in 0..8.           *)
(***************************************************************************)
C15_GridWellFormed ==
    /\ DOMAIN grid = 0..(dimensions.width - 1)
    /\ \A x \in DOMAIN grid :
          /\ grid[x] \in DOMAIN rows
          /\ DOMAIN rows[grid[x]] = 0..(dimensions.height - 1)
          /\ \A y \in DOMAIN rows[grid[x]] : rows[grid[x]][y] \in JSVal
    /\ last = "tick" =>
          LET tr == StepTrace
          IN  \A i \in 1..Len(prev.queue) : CountIn(tr, i) \in 0..8

\* A step that counted a live neighbour and wrote a cell, after two clicks.
C15_Witness ==
    /\ last = "tick"
    /\ clicks = 2
    /\ rows # prev.rows
    /\ LET tr == StepTrace
       IN  \E i \in 1..Len(prev.queue) : CountIn(tr, i) = 1
    /\ \E x \in DOMAIN grid : \E y \in DOMAIN rows[grid[x]] : prev.rows[grid[x]][y] = "true"

(***************************************************************************)
(* C16: creating the grid with a width or a height that is not positive    *)
(* ends in an error, never in a returned grid.                             *)
(***************************************************************************)
C16_ConfigurationErrorsRejected ==
    (call.fn = "makeGrid" /\ (call.width <= 0 \/ call.height <= 0)) =>
        call.outcome = "error"

(***************************************************************************)
(* C17: every coordinate in the queue a step produces is a Moore neighbour *)
(* of a queue entry the step wrote; an entry whose rule result is the      *)
(* state it has leaves the grid and the candidate list as they are; and a  *)
(* step that writes no entry produces the empty queue.                     *)
(***************************************************************************)
C17_OnlyChangesPropagate ==
    last = "tick" =>
        LET tr == StepTrace
        IN  /\ Range(queue) \subseteq
                  UNION {Moore(prev.queue[i]) :
                            i \in {j \in 1..Len(prev.queue) : ChangedIn(tr, j)}}
            /\ \A i \in 1..Len(prev.queue) : RuleKeepsIn(tr, i) => tr[i + 1] = tr[i]
            /\ (\A i \in 1..Len(prev.queue) : ~ChangedIn(tr, i)) => queue = <<>>

\* A step with one entry written and another kept: only the neighbours of
\* the written one are queued.
C17_Witness ==
    /\ last = "tick"
    /\ LET tr == StepTrace
       IN  \E i, j \in 1..Len(prev.queue) :
              /\ ChangedIn(tr, i)
              /\ RuleKeepsIn(tr, j)
              /\ Range(queue) = Moore(prev.queue[i])
              /\ prev.queue[j] # prev.queue[i]

(***************************************************************************)
(* C18: a mousedown on a cell c of the grid negates the state of c, leaves *)
(* every other cell and the grid's columns as they are, and appends the    *)
(* one entry c to the queue, whose earlier entries keep their places; no   *)
(* neighbour of c is queued.                                               *)
(***************************************************************************)
C18_ManualClickEffect ==
    [][clicks' # clicks =>
          \E c \in Cells(dimensions) :
              /\ queue' = Append(queue, c)
              /\ grid' = grid
              /\ CellState(rows', grid', c) = ~CellState(rows, grid, c)
              /\ \A d \in Cells(dimensions) \ {c} :
                    rows'[grid'[d.x]][d.y] = rows[grid[d.x]][d.y]]_vars

\* A second click on a queued live cell: it is dead again and queued twice.
C18_Witness ==
    /\ last = "mousedown"
    /\ Len(queue) = 2
    /\ queue[1] = queue[2]
    /\ CellState(prev.rows, grid, queue[2])
    /\ ~CellState(rows, grid, queue[2])

(***************************************************************************)
(* C19: in every state reached by clicks and steps every queue entry is a  *)
(* coordinate of the grid, and the queue a step produces is at most 8      *)
(* times as long as the queue it consumed and at most width * height long. *)
(***************************************************************************)
C19_QueueBounds ==
    /\ Range(queue) \subseteq Cells(dimensions)
    /\ last = "tick" =>
          /\ Len(queue) <= 8 * Len(prev.queue)
          /\ Len(queue) <= dimensions.width * dimensions.height

\* A step on two clicked cells that queued every cell of the grid once.
C19_Witness ==
    /\ last = "tick"
    /\ Len(prev.queue) = 2
    /\ Len(queue) = dimensions.width * dimensions.height
    /\ Range(queue) = Cells(dimensions)

(***************************************************************************)
(* C20: after any clicks on the play button, starting paused with the tick *)
(* button enabled, at most one timer is active, a timer is active exactly  *)
(* when the play button is playing, and the tick button is disabled        *)
(* exactly when it is playing: manual and automatic ticks are never both   *)
(* enabled.                                                                *)
(***************************************************************************)
C20_PlayPauseExclusive ==
    /\ Cardinality(timers) <= 1
    /\ (timers # {}) <=> playing
    /\ playing => timers = {interval}
    /\ tickDisabled <=> playing
    /\ ~(~tickDisabled /\ timers # {})

\* Playing for the second time, after a pause, with the timer having ticked.
C20_Witness ==
    /\ playing
    /\ timerSeq = 2
    /\ timers = {2}
    /\ tickDisabled
    /\ last = "tick"

=============================================================================
